---- MODULE Spec2Model ----
(***************************************************************************)
(* A model of shaka.util.ManifestFilter (lib/util/manifest_filter.js):     *)
(* the codec summary of a variant, the summary set, filterByCommonCodecs   *)
(* and the asynchronous rollingFilter with its injected per-period filter. *)
(*                                                                         *)
(* Strings that the code inspects (the codecs strings, which it splits at  *)
(* '.') are sequences of one-character strings; mime types, which it only  *)
(* compares, are TLA+ strings.  A nullable value is Null or Some(x).       *)
(***************************************************************************)
EXTENDS Integers, Sequences, FiniteSets, TLC

\* ------------------------------------------------------------------------
\* Bounds of the model
\* ------------------------------------------------------------------------
MaxPeriods == 3
MaxVariants == 2
MaxCodecLen == 2
MaxListLen == 2

\* ------------------------------------------------------------------------
\* Values
\* ------------------------------------------------------------------------
Null == <<>>
Some(x) == <<x>>

Dot == "."

Stream(mime, codecs) == [mimeType |-> mime, codecs |-> codecs]

\* ------------------------------------------------------------------------
\* String.prototype.split with a one-character separator, as the code uses
\* it: the pieces between the separators, in order; a string without the
\* separator (the empty string included) gives the one-element array of
\* itself.
\* ------------------------------------------------------------------------
RECURSIVE split(_, _)
split(s, sep) ==
  IF \A k \in 1..Len(s) : s[k] # sep
    THEN <<s>>
    ELSE LET k == CHOOSE j \in 1..Len(s) :
                     s[j] = sep /\ \A h \in 1..(j - 1) : s[h] # sep
         IN  <<SubSeq(s, 1, k - 1)>> \o split(SubSeq(s, k + 1, Len(s)), sep)

\* Variant of codecBase: the codecs string is not split.
codecBase_whole(codecs) == codecs

\* codecs.split('.')[0]
codecBase(codecs) == split(codecs, Dot)[1]

\* new VariantCodecSummary(variant)
VariantCodecSummary(variant) ==
  LET audio == variant.audio
      video == variant.video
  IN  [audioMime_  |-> IF audio # Null THEN Some(audio[1].mimeType) ELSE Null,
       audioCodec_ |-> IF audio # Null THEN Some(codecBase(audio[1].codecs))
                                       ELSE Null,
       videoMime_  |-> IF video # Null THEN Some(video[1].mimeType) ELSE Null,
       videoCodec_ |-> IF video # Null THEN Some(codecBase(video[1].codecs))
                                       ELSE Null]

\* VariantCodecSummary.equals: == on values that are a string or null
equals(this, other) ==
  /\ this.audioMime_ = other.audioMime_
  /\ this.audioCodec_ = other.audioCodec_
  /\ this.videoMime_ = other.videoMime_
  /\ this.videoCodec_ = other.videoCodec_

\* ------------------------------------------------------------------------
\* VariantCodecSummarySet: the array all_, a sequence of summaries
\* ------------------------------------------------------------------------
EmptySet == <<>>

\* Variant of contains: the last element of the array is not looked at.
contains_skipLast(all, summary) ==
  \E k \in 1..(Len(all) - 1) : equals(summary, all[k])

\* contains: this.all_.some((x) => summary.equals(x))
contains(all, summary) == \E k \in 1..Len(all) : equals(summary, all[k])

\* Variant of add: the summary is pushed whether contained or not.
add_always(all, summary) == Append(all, summary)

\* add: push unless contained
add(all, summary) == IF ~contains(all, summary) THEN Append(all, summary) ELSE all

\* includeAll: add every item of other, in order
RECURSIVE includeAll(_, _)
includeAll(all, other) ==
  IF other = <<>> THEN all ELSE includeAll(add(all, Head(other)), Tail(other))

\* Variant of onlyKeep: the items of |other| are the ones removed.
onlyKeep_removesKept(all, other) == SelectSeq(all, LAMBDA x : ~contains(other, x))

\* onlyKeep: this.all_.filter((x) => other.contains(x))
onlyKeep(all, other) == SelectSeq(all, LAMBDA x : contains(other, x))

\* ------------------------------------------------------------------------
\* Manifests: an Array of periods, each with an id and an Array of variants
\* ------------------------------------------------------------------------
\* Array.prototype.filter keeps, in order, the elements at the kept indices.
RECURSIVE subAt(_, _, _)
subAt(seq, S, k) ==
  IF k > Len(seq) THEN <<>>
  ELSE (IF k \in S THEN <<seq[k]>> ELSE <<>>) \o subAt(seq, S, k + 1)

Sublists(seq) == {subAt(seq, S, 1) : S \in SUBSET (1..Len(seq))}

\* The variant objects the modelled manifests refer to.  V1 and V2 differ
\* only after the first '.' of their codecs strings; V3 has no audio stream
\* and another container.  A period's Array holds references to variant
\* objects: the index of the object in VariantPool.
V1 == [audio |-> Some(Stream("audio/mp4", <<"a", ".", "1">>)),
       video |-> Some(Stream("video/mp4", <<"v", ".", "1">>))]
V2 == [audio |-> Some(Stream("audio/mp4", <<"a", ".", "2">>)),
       video |-> Some(Stream("video/mp4", <<"v", ".", "2", ".", "1">>))]
V3 == [audio |-> Null,
       video |-> Some(Stream("video/webm", <<"v">>))]
V4 == [audio |-> Some(Stream("audio/webm", <<"o">>)),
       video |-> Null]

VariantPool == <<V1, V2, V3, V4>>

VariantRefs == <<1, 2, 3>>

\* The summary of the variant object a reference points to.
PoolSummaries == [ref \in DOMAIN VariantPool |-> VariantCodecSummary(VariantPool[ref])]

summaryOf(ref) == PoolSummaries[ref]

\* fromVariants: a new set with the summary of every variant of the Array
\* added in order
RECURSIVE addVariants(_, _)
addVariants(all, variants) ==
  IF variants = <<>> THEN all
  ELSE addVariants(add(all, summaryOf(Head(variants))), Tail(variants))

fromVariants(variants) == addVariants(EmptySet, variants)

VariantLists == {l \in Sublists(VariantRefs) : Len(l) <= MaxVariants}

Manifests ==
  UNION {{[k \in 1..n |-> [id |-> k, variants |-> f[k]]] :
             f \in [1..n -> VariantLists]} : n \in 0..MaxPeriods}

\* What the injected filter's promise can be rejected with.
Errors == {"E1", "E2"}

VARIABLES
  periods,    \* manifest.periods
  pc,         \* "idle" | "await" | "done" | "failed" | "ccDone" | "assertFailed"
  idx,        \* rollingFilter: index of the period of the current iteration
  previous,   \* rollingFilter: null or the summary set of the last period
  common,     \* filterByCommonCodecs: the set |common| once built
  callState,  \* per period: the injected filter's call, "none" | "pending" |
              \*   "resolved" | "rejected"
  callErr,    \* per period: what the call was rejected with
  failure,    \* what rollingFilter's promise was rejected with
  orig,       \* history: manifest.periods when the filter function was called
  prior,      \* history, per period: its variants when its iteration began
  handed,     \* history, per period: its variants when |filter| was invoked
  completed,  \* history, per period: its variants when the call settled
  added,      \* history: the injected filter has put a variant into a list
  invoked,    \* history: the ids of the periods |filter| was invoked on, in
              \*   the order of the invocations
  eq,         \* the inputs and results of the summary comparisons
  calc        \* the inputs and results of the other function applications

vars == <<periods, pc, idx, previous, common, callState, callErr, failure,
          orig, prior, handed, completed, added, invoked, eq, calc>>

mvars == <<periods, pc, idx, previous, common, callState, callErr, failure,
           orig, prior, handed, completed, added, invoked>>

EqIdle == [state |-> "unused"]

CalcIdle == [state |-> "unused"]

Init ==
  /\ periods \in Manifests
  /\ pc = "idle"
  /\ idx = 0
  /\ previous = Null
  /\ common = Null
  /\ callState = [k \in 1..Len(periods) |-> "none"]
  /\ callErr = [k \in 1..Len(periods) |-> Null]
  /\ failure = Null
  /\ orig = periods
  /\ prior = [k \in 1..Len(periods) |-> Null]
  /\ handed = [k \in 1..Len(periods) |-> Null]
  /\ completed = [k \in 1..Len(periods) |-> Null]
  /\ added = FALSE
  /\ invoked = <<>>
  /\ eq = EqIdle
  /\ calc = CalcIdle

\* ------------------------------------------------------------------------
\* filterByCommonCodecs
\* ------------------------------------------------------------------------
\* Variant of hasPeriods: the comparison lets the empty manifest through.
hasPeriods_nonNegative(ps) == Len(ps) >= 0

\* The asserted condition: manifest.periods.length > 0
hasPeriods(ps) == Len(ps) > 0

\* goog.asserts.assert(condition, message): a false condition is rejected
\* loudly, the call does not go on.
assertRejects(condition) == ~condition

\* Variant of commonLoop: the later periods are united with, not intersected.
RECURSIVE commonLoop_union(_, _, _, _)
commonLoop_union(ps, k, all, first) ==
  IF k > Len(ps) THEN all
  ELSE commonLoop_union(ps, k + 1,
                        includeAll(all, fromVariants(ps[k].variants)),
                        FALSE)

\* Variant of commonLoop: the period after the first one is passed over.
RECURSIVE commonLoop_skip(_, _, _, _)
commonLoop_skip(ps, k, all, first) ==
  IF k > Len(ps) THEN all
  ELSE LET next == fromVariants(ps[k].variants)
       IN  IF first THEN commonLoop_skip(ps, k + 2, includeAll(all, next), FALSE)
                    ELSE commonLoop_skip(ps, k + 1, onlyKeep(all, next), first)

\* The first loop: |common| after the periods from k on, given |first|.
RECURSIVE commonLoop(_, _, _, _)
commonLoop(ps, k, all, first) ==
  IF k > Len(ps) THEN all
  ELSE LET next == fromVariants(ps[k].variants)
       IN  IF first THEN commonLoop(ps, k + 1, includeAll(all, next), FALSE)
                    ELSE commonLoop(ps, k + 1, onlyKeep(all, next), first)

\* Variant of commonSummaries: the summaries of the first period, never
\* intersected with the later periods'.
commonSummaries_firstOnly(ps) ==
  IF ps = <<>> THEN EmptySet ELSE fromVariants(ps[1].variants)

commonSummaries(ps) == commonLoop(ps, 1, EmptySet, TRUE)

\* Variant of keepCommon: the kept variants come out in reverse order.
keepCommon_reversed(variants, all) ==
  LET kept == SelectSeq(variants, LAMBDA variant : contains(all, summaryOf(variant)))
  IN  [m \in 1..Len(kept) |-> kept[Len(kept) + 1 - m]]

\* The second loop's filter of one period's variants.
keepCommon(variants, all) ==
  SelectSeq(variants, LAMBDA variant : contains(all, summaryOf(variant)))

filterByCommonCodecs ==
  /\ pc = "idle"
  /\ IF assertRejects(hasPeriods(periods))
       THEN /\ pc' = "assertFailed"
            /\ UNCHANGED <<periods, common>>
       ELSE LET all == commonSummaries(periods)
            IN  /\ common' = Some(all)
                /\ periods' = [k \in 1..Len(periods) |->
                                 [periods[k] EXCEPT
                                    !.variants = keepCommon(periods[k].variants, all)]]
                /\ pc' = "ccDone"
  /\ UNCHANGED <<idx, previous, callState, callErr, failure,
                 orig, prior, handed, completed, added, invoked, eq, calc>>

\* ------------------------------------------------------------------------
\* rollingFilter
\* ------------------------------------------------------------------------
\* Variant of truthy: an empty set counts as no set.
truthy_nonEmpty(prev) == prev # Null /\ prev[1] # <<>>

\* if (previous): an object is truthy, null is not
truthy(prev) == prev # Null

\* Variant of pruneByPrevious: compares with the first summary of |previous|
\* only.
pruneByPrevious_firstOnly(variants, prev) ==
  IF prev # Null
    THEN SelectSeq(variants,
                   LAMBDA variant : /\ prev[1] # <<>>
                                    /\ equals(summaryOf(variant), prev[1][1]))
    ELSE variants

\* The adjacency pruning of one period's variants.
pruneByPrevious(variants, prev) ==
  IF truthy(prev)
    THEN SelectSeq(variants,
                   LAMBDA variant : contains(prev[1], summaryOf(variant)))
    ELSE variants

\* Variant of awaitOver: the call is not awaited.
awaitOver_noAwait(state) == TRUE

\* Variant of thrown: a rejection is swallowed.
thrown_swallowed(state) == FALSE

\* Variant of nextPrevious: the summaries of the list as handed to the
\* injected filter, not as the filter left it.
nextPrevious_stale(variants) ==
  Some(fromVariants(handed[idx][1]))

\* Variant of awaitOver: the function goes on only after a promise that
\* resolved.
awaitOver_onlyResolved(state) == state = "resolved"

\* await filter(period): the function goes on once the promise has settled.
awaitOver(state) == state \in {"resolved", "rejected"}

\* await of a rejected promise throws.
thrown(state) == state = "rejected"

\* Variant of nextPrevious: the summaries of this period are added to those
\* of the periods before it.
nextPrevious_accumulated(variants) ==
  Some(includeAll(IF previous = Null THEN EmptySet ELSE previous[1],
                  fromVariants(variants)))

\* previous = VariantCodecSummarySet.fromVariants(period.variants), after the
\* await
nextPrevious(variants) == Some(fromVariants(variants))

\* Variant of iterate: the loop ends at the first period that the pruning
\* leaves empty, without invoking the injected filter on it.
iterate_stopAtEmpty(k, prev) ==
  /\ previous' = prev
  /\ IF k > Len(periods)
       THEN /\ pc' = "done"
            /\ UNCHANGED <<periods, idx, callState, prior, handed, invoked>>
       ELSE LET pruned == pruneByPrevious(periods[k].variants, prev)
            IN  IF pruned = <<>>
                  THEN /\ periods' = [periods EXCEPT ![k].variants = pruned]
                       /\ pc' = "done"
                       /\ UNCHANGED <<idx, callState, prior, handed, invoked>>
                  ELSE /\ periods' = [periods EXCEPT ![k].variants = pruned]
                       /\ prior' = [prior EXCEPT ![k] = Some(periods[k].variants)]
                       /\ handed' = [handed EXCEPT ![k] = Some(pruned)]
                       /\ callState' = [callState EXCEPT ![k] = "pending"]
                       /\ invoked' = Append(invoked, periods[k].id)
                       /\ idx' = k
                       /\ pc' = "await"

\* One pass of the loop from its head for period k, up to the await: either
\* the loop is over and the promise resolves, or period k is pruned and the
\* injected filter is invoked on it.
iterate(k, prev) ==
  /\ previous' = prev
  /\ IF k > Len(periods)
       THEN /\ pc' = "done"
            /\ UNCHANGED <<periods, idx, callState, prior, handed, invoked>>
       ELSE LET pruned == pruneByPrevious(periods[k].variants, prev)
            IN  /\ periods' = [periods EXCEPT ![k].variants = pruned]
                /\ prior' = [prior EXCEPT ![k] = Some(periods[k].variants)]
                /\ handed' = [handed EXCEPT ![k] = Some(pruned)]
                /\ callState' = [callState EXCEPT ![k] = "pending"]
                /\ invoked' = Append(invoked, periods[k].id)
                /\ idx' = k
                /\ pc' = "await"

\* The call of rollingFilter: runs synchronously up to the first await.
rollingFilter ==
  /\ pc = "idle"
  /\ iterate(1, Null)
  /\ UNCHANGED <<common, callErr, failure, orig, completed, added, eq, calc>>

\* The continuation after the await: a rejection is thrown out of the
\* function; otherwise |previous| is recomputed and the loop goes on.
resume ==
  /\ pc = "await"
  /\ awaitOver(callState[idx])
  /\ IF thrown(callState[idx])
       THEN /\ pc' = "failed"
            /\ failure' = callErr[idx]
            /\ UNCHANGED <<periods, idx, previous, callState, prior, handed,
                           invoked>>
       ELSE /\ iterate(idx + 1, nextPrevious(periods[idx].variants))
            /\ UNCHANGED failure
  /\ UNCHANGED <<common, callErr, orig, completed, added, eq, calc>>

\* ------------------------------------------------------------------------
\* The injected filter: a pending call on period k leaves the period with
\* some of its variants removed or with a variant put in, and settles.
\* ------------------------------------------------------------------------
\* The variant a resolving call may put into a list it was left with empty.
PutIn == {VariantRefs[1]}

\* What a call that resolves can leave in the period: any of the variants
\* removed, or a variant put into the empty list.
filterResults(variants) ==
  Sublists(variants) \cup
    (IF variants # <<>> THEN {} ELSE {Append(variants, ref) : ref \in PutIn})

\* What a call that fails leaves in the period: its list as it was handed.
failedResults(variants) == {variants}

filterSettles(k, variants, state, err) ==
  /\ callState[k] = "pending"
  /\ periods' = [periods EXCEPT ![k].variants = variants]
  /\ completed' = [completed EXCEPT ![k] = Some(variants)]
  /\ callState' = [callState EXCEPT ![k] = state]
  /\ callErr' = [callErr EXCEPT ![k] = err]
  /\ added' = (added \/ variants \notin Sublists(periods[k].variants))
  /\ UNCHANGED <<pc, idx, previous, common, failure, orig, prior, handed,
                 invoked, eq, calc>>

filterResolves ==
  \E k \in 1..Len(periods) :
    \E variants \in filterResults(periods[k].variants) :
      filterSettles(k, variants, "resolved", Null)

filterRejects ==
  \E k \in 1..Len(periods) :
    \E variants \in failedResults(periods[k].variants) :
      \E e \in Errors :
        filterSettles(k, variants, "rejected", Some(e))

Next ==
  \/ filterByCommonCodecs
  \/ rollingFilter
  \/ resume
  \/ filterResolves
  \/ filterRejects

Spec == Init /\ [][Next]_vars

\* ------------------------------------------------------------------------
\* Comparing summaries: the summaries of three variants drawn from EqVariants
\* are built and compared with equals.
\* ------------------------------------------------------------------------
CodecChars == {"a", Dot}

CodecStrings == UNION {[1..n -> CodecChars] : n \in 0..MaxCodecLen}

AudioChoices ==
  {Null} \cup {Some(Stream(m, c)) : m \in {"audio/mp4", "audio/webm"}, c \in CodecStrings}

VideoChoices ==
  {Null,
   Some(Stream("video/mp4", <<"v", ".", "1">>)),
   Some(Stream("video/webm", <<"w", ".", "2">>))}

EqVariants == [audio : AudioChoices, video : VideoChoices]

InitEq ==
  /\ periods = <<>>
  /\ pc = "unused"
  /\ idx = 0
  /\ previous = Null
  /\ common = Null
  /\ callState = <<>>
  /\ callErr = <<>>
  /\ failure = Null
  /\ orig = <<>>
  /\ prior = <<>>
  /\ handed = <<>>
  /\ completed = <<>>
  /\ added = FALSE
  /\ invoked = <<>>
  /\ calc = CalcIdle
  /\ eq \in [state : {"input"}, a : EqVariants, b : EqVariants]

compare ==
  /\ eq.state = "input"
  /\ \E c \in EqVariants :
       \E sa \in {VariantCodecSummary(eq.a)} :
         \E sb \in {VariantCodecSummary(eq.b)} :
           \E sc \in {VariantCodecSummary(c)} :
             eq' = [state |-> "compared", a |-> eq.a, b |-> eq.b, c |-> c,
                    aa |-> equals(sa, sa), ab |-> equals(sa, sb),
                    ba |-> equals(sb, sa), bc |-> equals(sb, sc),
                    ac |-> equals(sa, sc)]
  /\ UNCHANGED <<mvars, calc>>

NextEq == compare

SpecEq == InitEq /\ [][NextEq]_vars

\* ------------------------------------------------------------------------
\* Applying filterByCommonCodecs as a function of the manifest: to a
\* manifest, to the manifest it has left, and to the manifest with its
\* periods in another order.
\* ------------------------------------------------------------------------
\* No run of a filter function on manifest.periods is modelled.
NoRun ==
  /\ periods = <<>>
  /\ pc = "unused"
  /\ idx = 0
  /\ previous = Null
  /\ common = Null
  /\ callState = <<>>
  /\ callErr = <<>>
  /\ failure = Null
  /\ orig = <<>>
  /\ prior = <<>>
  /\ handed = <<>>
  /\ completed = <<>>
  /\ added = FALSE
  /\ invoked = <<>>

\* What a call of filterByCommonCodecs on the periods ps leaves: nothing when
\* the assertion rejects the call, else the set |common| and the periods.
commonRun(ps) ==
  IF assertRejects(hasPeriods(ps))
    THEN Null
    ELSE LET all == commonSummaries(ps)
         IN  Some([common |-> all,
                   periods |-> [k \in 1..Len(ps) |->
                                  [ps[k] EXCEPT
                                     !.variants = keepCommon(ps[k].variants, all)]]])

Perms(n) == {f \in [1..n -> 1..n] : \A i, j \in 1..n : i # j => f[i] # f[j]}

\* The periods ps in the order f.
permuted(ps, f) == [k \in 1..Len(ps) |-> ps[f[k]]]

InitCalc ==
  /\ NoRun
  /\ eq = EqIdle
  /\ calc \in {[state |-> "input", manifest |-> m] : m \in Manifests}

applyCommon ==
  /\ calc.state = "input"
  /\ \E once \in {commonRun(calc.manifest)} :
       \E f \in Perms(Len(calc.manifest)) :
         calc' = [state |-> "applied",
                  manifest |-> calc.manifest,
                  perm |-> f,
                  once |-> once,
                  again |-> IF once = Null THEN Null ELSE commonRun(once[1].periods),
                  shuffled |-> commonRun(permuted(calc.manifest, f))]
  /\ UNCHANGED <<mvars, eq>>

NextCalc == applyCommon

SpecCalc == InitCalc /\ [][NextCalc]_vars

\* ------------------------------------------------------------------------
\* A rollingFilter run on its own, with the scheduling of the continuation:
\* once the awaited promise has settled, the continuation after the await is
\* queued as a job and the job queue runs it, so resume is taken whenever it
\* stays enabled.  Nothing obliges the injected filter to settle its promise.
\* ------------------------------------------------------------------------
InitLive ==
  /\ Init
  /\ \A k \in 1..Len(periods) : Len(periods[k].variants) <= 1

NextLive ==
  \/ rollingFilter
  \/ resume
  \/ filterResolves
  \/ filterRejects

SpecLive == InitLive /\ [][NextLive]_vars /\ WF_vars(resume)

\* ------------------------------------------------------------------------
\* Two VariantCodecSummarySet objects, |this| and |other|: |this| starts as
\* a new set and is changed by add, includeAll and onlyKeep, with |other| or
\* itself as the argument; |other| is what fromVariants returns.
\* ------------------------------------------------------------------------
\* The Arrays of variants handed to fromVariants.
RefLists == UNION {[1..n -> DOMAIN VariantPool] : n \in 0..MaxListLen}

setState(this, other, op, was, arg) ==
  [state |-> "set", this |-> this, other |-> other, op |-> op,
   before |-> was, arg |-> arg]

InitSet ==
  /\ NoRun
  /\ eq = EqIdle
  /\ calc = setState(EmptySet, EmptySet, "new", EmptySet, <<>>)

setAdd ==
  /\ \E ref \in DOMAIN VariantPool :
       calc' = setState(add(calc.this, summaryOf(ref)), calc.other,
                        "add", calc.this, <<summaryOf(ref)>>)
  /\ UNCHANGED <<mvars, eq>>

setIncludeAll ==
  /\ \E arg \in {calc.this, calc.other} :
       calc' = setState(includeAll(calc.this, arg), calc.other,
                        "includeAll", calc.this, arg)
  /\ UNCHANGED <<mvars, eq>>

setOnlyKeep ==
  /\ \E arg \in {calc.this, calc.other} :
       calc' = setState(onlyKeep(calc.this, arg), calc.other,
                        "onlyKeep", calc.this, arg)
  /\ UNCHANGED <<mvars, eq>>

setFromVariants ==
  /\ \E variants \in RefLists :
       calc' = setState(calc.this, fromVariants(variants),
                        "fromVariants", calc.this, <<>>)
  /\ UNCHANGED <<mvars, eq>>

NextSet ==
  \/ setAdd
  \/ setIncludeAll
  \/ setOnlyKeep
  \/ setFromVariants

SpecSet == InitSet /\ [][NextSet]_vars

\* ========================================================================
\* Properties
\* ========================================================================
\* The codec identity of a variant, read off its streams: the part of a
\* codecs string before its first '.' is its '.'-free prefix that is either
\* the whole string or is followed by a '.'.
BaseOf(codecs) ==
  CHOOSE p \in {SubSeq(codecs, 1, n) : n \in 0..Len(codecs)} :
    /\ \A k \in 1..Len(p) : p[k] # Dot
    /\ Len(p) = Len(codecs) \/ codecs[Len(p) + 1] = Dot

IdentityOf(variant) ==
  <<IF variant.audio = Null THEN Null ELSE Some(variant.audio[1].mimeType),
    IF variant.audio = Null THEN Null ELSE Some(BaseOf(variant.audio[1].codecs)),
    IF variant.video = Null THEN Null ELSE Some(variant.video[1].mimeType),
    IF variant.video = Null THEN Null ELSE Some(BaseOf(variant.video[1].codecs))>>

PoolIdentities == [ref \in DOMAIN VariantPool |-> IdentityOf(VariantPool[ref])]

SameIdentity(r1, r2) == PoolIdentities[r1] = PoolIdentities[r2]

\* Some variant of the list has the identity of the variant r.
MatchedIn(r, variants) == \E m \in 1..Len(variants) : SameIdentity(r, variants[m])

Identities(variants) == {PoolIdentities[variants[m]] : m \in 1..Len(variants)}

CommonReturned == pc \in {"ccDone", "assertFailed"}

\* C1: after filterByCommonCodecs on a manifest with at least one period, the
\* call has completed normally and every period holds, in order, exactly
\* those of its original variants whose identity is the identity of some
\* variant in every period of the original manifest (so all lists are empty
\* when no identity is common).
C1_CommonKeepsExactlyShared ==
  (CommonReturned /\ Len(orig) >= 1) =>
     /\ pc = "ccDone"
     /\ Len(periods) = Len(orig)
     /\ \A i \in 1..Len(orig) :
          periods[i].variants =
            SelectSeq(orig[i].variants,
                      LAMBDA v : \A j \in 1..Len(orig) : MatchedIn(v, orig[j].variants))

C1_Witness ==
  /\ pc = "ccDone"
  /\ Len(orig) >= 2
  /\ \E i \in 1..Len(orig) :
       /\ periods[i].variants # orig[i].variants
       /\ periods[i].variants # <<>>

\* C7: after filterByCommonCodecs the surviving variants carry the same set
\* of identities in every period.
C7_CommonSameIdentitiesEverywhere ==
  pc = "ccDone" =>
     \A i, j \in 1..Len(periods) :
        Identities(periods[i].variants) = Identities(periods[j].variants)

C7_Witness ==
  /\ pc = "ccDone"
  /\ Len(periods) >= 3
  /\ periods[1].variants # <<>>
  /\ \E i \in 1..Len(periods) : periods[i].variants # orig[i].variants
  /\ \E i, j \in 1..Len(periods) : periods[i].variants # periods[j].variants

\* C10: filterByCommonCodecs on a manifest with no periods never completes
\* normally; it stops at the assertion with no set built and nothing changed.
C10_ZeroPeriodsRejected ==
  (CommonReturned /\ Len(orig) = 0) =>
     /\ pc = "assertFailed"
     /\ common = Null
     /\ periods = orig

C10_Witness == pc = "assertFailed" /\ Len(orig) = 0

\* What the adjacency pruning must hand to the injected filter for period k:
\* the first period as it was, a later one cut down to the variants matched
\* in the previous period's list as the previous call left it.
HandedAsPruned(k) ==
  IF k = 1
    THEN handed[k] = Some(orig[k].variants)
    ELSE /\ completed[k - 1] # Null
         /\ prior[k] # Null
         /\ handed[k] =
              Some(SelectSeq(prior[k][1],
                             LAMBDA v : MatchedIn(v, completed[k - 1][1])))

\* C2: whenever the injected filter has been invoked on a period, the list it
\* was invoked with is the period's prior list cut down, in order, to the
\* variants matched in the previous period's list as it stood when the
\* previous call completed; the first period is handed over unmodified.
C2_HandedListIsAdjacencyPruned ==
  \A k \in 1..Len(periods) : handed[k] # Null => HandedAsPruned(k)

C2_Witness ==
  \E k \in 2..Len(periods) :
    /\ handed[k] # Null
    /\ handed[k] # prior[k]
    /\ handed[k] # Some(<<>>)
    /\ completed[k - 1] # Some(orig[k - 1].variants)

\* C3: at most one call of the injected filter is in flight, and a period is
\* pruned and handed to the injected filter only after the calls for all
\* earlier periods have completed; a period not reached yet is untouched.
C3_OneCallAtATimeInOrder ==
  /\ Cardinality({k \in 1..Len(periods) : callState[k] = "pending"}) <= 1
  /\ \A k \in 1..Len(periods) :
       /\ callState[k] # "none" =>
            \A j \in 1..(k - 1) : callState[j] = "resolved"
       /\ handed[k] # Null => callState[k] # "none"
       /\ (callState[k] = "none" /\ pc \in {"await", "done", "failed"}) =>
            periods[k] = orig[k]

C3_Witness ==
  /\ Len(periods) = 3
  /\ callState[3] = "pending"
  /\ handed[3] # Some(orig[3].variants)

\* C4: a failure of the injected filter on period k is the failure of
\* rollingFilter: the run does not go on past k, it fails with the call's
\* error, the periods before k were pruned and filtered as usual, and the
\* periods after k are as they were, never handed to the injected filter.
C4_FailureAbortsAndPropagates ==
  /\ \A k \in 1..Len(periods) :
       callState[k] = "rejected" =>
         /\ pc \in {"await", "failed"}
         /\ idx = k
         /\ callErr[k] # Null
         /\ \A j \in (k + 1)..Len(periods) :
              /\ callState[j] = "none"
              /\ handed[j] = Null
              /\ periods[j] = orig[j]
  /\ pc = "failed" =>
       /\ callState[idx] = "rejected"
       /\ failure = callErr[idx]
       /\ \A j \in 1..(idx - 1) :
            /\ callState[j] = "resolved"
            /\ HandedAsPruned(j)
            /\ Some(periods[j].variants) = completed[j]

C4_Witness ==
  /\ pc = "failed"
  /\ Len(periods) = 3
  /\ idx = 2
  /\ failure = Some("E2")
  /\ periods[1].variants # orig[1].variants
  /\ periods[3].variants # <<>>

\* Period k was left empty when its call completed.
EmptiedAt(k) == callState[k] = "resolved" /\ completed[k] = Some(<<>>)

\* C5 as stated: once a period is empty at the completion of its call, every
\* later period is handed over empty, and ends the run empty when the
\* injected filter never adds variants.
C5_AsStated ==
  \A k \in 1..Len(periods) : \A j \in (k + 1)..Len(periods) :
     EmptiedAt(k) =>
        /\ handed[j] # Null => handed[j] = Some(<<>>)
        /\ (pc = "done" /\ ~added) => periods[j].variants = <<>>

\* C5 amended: when the injected filter never adds variants, once a period is
\* empty at the completion of its call every later period is handed over
\* empty and ends the run empty.
C5_EmptyCascades ==
  ~added =>
    \A k \in 1..Len(periods) : \A j \in (k + 1)..Len(periods) :
       EmptiedAt(k) =>
          /\ handed[j] # Null => handed[j] = Some(<<>>)
          /\ pc = "done" => periods[j].variants = <<>>

C5_Witness ==
  /\ pc = "done"
  /\ ~added
  /\ Len(periods) = 3
  /\ EmptiedAt(2)
  /\ orig[2].variants # <<>>
  /\ periods[1].variants # <<>>
  /\ \E m \in 1..Len(orig[3].variants) :
       MatchedIn(orig[3].variants[m], periods[1].variants)
  /\ periods[3].variants = <<>>

\* Every variant of the list |these| is matched in the list |those|.
AllMatched(these, those) == \A m \in 1..Len(these) : MatchedIn(these[m], those)

RemovedOnlyDone == pc = "done" /\ ~added

\* C6 as stated: after a successful run with a filter that only removes, the
\* survivors of adjacent periods match each other in both directions.
C6_AsStated ==
  RemovedOnlyDone =>
    \A i \in 1..(Len(periods) - 1) :
       /\ AllMatched(periods[i + 1].variants, periods[i].variants)
       /\ AllMatched(periods[i].variants, periods[i + 1].variants)

\* C6 amended: after a successful run with a filter that only removes, every
\* surviving variant of a period is matched by a surviving variant of the
\* period before it.
C6_SurvivorsMatchPredecessor ==
  RemovedOnlyDone =>
    \A i \in 1..(Len(periods) - 1) :
       AllMatched(periods[i + 1].variants, periods[i].variants)

C6_Witness ==
  /\ RemovedOnlyDone
  /\ Len(periods) = 3
  /\ periods[3].variants # <<>>
  /\ periods[2].variants # orig[2].variants
  /\ ~AllMatched(orig[3].variants, periods[2].variants)

\* The list s is the list t with some elements left out.
RECURSIVE IsSubsequence(_, _)
IsSubsequence(s, t) ==
  IF s = <<>> THEN TRUE
  ELSE IF t = <<>> THEN FALSE
  ELSE IF Head(s) = Head(t) THEN IsSubsequence(Tail(s), Tail(t))
  ELSE IsSubsequence(s, Tail(t))

\* C8: both filters only narrow the manifest: the periods are the same, in
\* the same order, and each period's list is an order-preserving subsequence
\* of its original list of (unmodified) variant objects.
C8_OnlyNarrows ==
  (pc = "ccDone" \/ RemovedOnlyDone) =>
     /\ Len(periods) = Len(orig)
     /\ \A k \in 1..Len(periods) :
          /\ periods[k].id = orig[k].id
          /\ IsSubsequence(periods[k].variants, orig[k].variants)

C8_Witness ==
  /\ RemovedOnlyDone
  /\ \E k \in 2..Len(periods) :
       /\ Len(orig[k].variants) = 2
       /\ periods[k].variants = <<orig[k].variants[2]>>
       /\ handed[k] = Some(periods[k].variants)

\* C9: equals is reflexive, symmetric and transitive on the summaries of any
\* variants, and two summaries are equal exactly when the variants agree on
\* audio mime, audio codecs up to the first '.', video mime and video codecs
\* up to the first '.', an absent stream agreeing only with an absent one.
C9_EqualsIsIdentityEquivalence ==
  eq.state = "compared" =>
     /\ eq.aa
     /\ eq.ab = eq.ba
     /\ (eq.ab /\ eq.bc) => eq.ac
     /\ eq.ab = (IdentityOf(eq.a) = IdentityOf(eq.b))

C9_Witness ==
  /\ eq.state = "compared"
  /\ eq.ab /\ eq.bc /\ eq.ac
  /\ eq.a.audio # Null /\ eq.b.audio # Null /\ eq.c.audio # Null
  /\ eq.a.audio # eq.b.audio
  /\ eq.b.audio # eq.c.audio
  /\ eq.a.audio # eq.c.audio
  /\ eq.a.video # Null

\* A run of rollingFilter has completed and every call of the injected
\* filter resolved leaving the list as it was handed over.
IdentityFilterDone ==
  /\ pc = "done"
  /\ \A k \in 1..Len(periods) : callState[k] = "resolved" /\ completed[k] = handed[k]

\* C11: after rollingFilter with an injected filter that resolves without
\* removing anything, period i holds, in order, exactly its original variants
\* whose identity occurs in every original period 1..i.
C11_RollingKeepsPrefixShared ==
  IdentityFilterDone =>
     \A i \in 1..Len(orig) :
        periods[i].variants =
          SelectSeq(orig[i].variants,
                    LAMBDA v : \A j \in 1..i : MatchedIn(v, orig[j].variants))

C11_Witness ==
  /\ IdentityFilterDone
  /\ Len(orig) = 3
  /\ periods[2].variants # <<>>
  /\ periods[3].variants = <<>>
  /\ \E m \in 1..Len(orig[3].variants) : MatchedIn(orig[3].variants[m], orig[1].variants)
  /\ \A m \in 1..Len(orig[3].variants) : ~MatchedIn(orig[3].variants[m], orig[2].variants)

\* C13: the injected filter is invoked on the periods one after the other in
\* timeline order, once each; a run that has completed has invoked it on
\* every period, empty ones included, and every call resolved; on a manifest
\* without periods the run completes without any invocation.
C13_InvokedOncePerPeriodInOrder ==
  /\ invoked = [k \in 1..Len(invoked) |-> orig[k].id]
  /\ Len(invoked) <= Len(orig)
  /\ pc = "await" => Len(invoked) = idx
  /\ pc = "done" =>
       /\ Len(invoked) = Len(orig)
       /\ \A k \in 1..Len(periods) : callState[k] = "resolved"
  /\ (Len(orig) = 0 /\ pc \notin {"idle", "ccDone", "assertFailed"}) =>
       pc = "done" /\ invoked = <<>>

C13_Witness ==
  /\ pc = "done"
  /\ invoked = <<1, 2, 3>>
  /\ handed[2] = Some(<<>>)
  /\ handed[3] = Some(<<>>)
  /\ orig[3].variants # <<>>

\* C18: on the same manifest, what filterByCommonCodecs keeps in a period is
\* kept there by rollingFilter run with an injected filter that removes
\* nothing, and in the last period both keep exactly the same variants.
C18_RollingKeepsWhatCommonKeeps ==
  (IdentityFilterDone /\ Len(orig) >= 1) =>
     /\ \A k \in 1..Len(orig) :
          IsSubsequence(keepCommon(orig[k].variants, commonSummaries(orig)),
                        periods[k].variants)
     /\ periods[Len(orig)].variants =
          keepCommon(orig[Len(orig)].variants, commonSummaries(orig))

C18_Witness ==
  /\ IdentityFilterDone
  /\ Len(orig) = 3
  /\ periods[3].variants # <<>>
  /\ periods[3].variants # orig[3].variants
  /\ periods[1].variants # keepCommon(orig[1].variants, commonSummaries(orig))

\* The elements of the array of a summary set.
Elements(all) == {all[k] : k \in 1..Len(all)}

\* C12: filterByCommonCodecs on the periods in another order builds the same
\* set of common summaries and leaves every period with the same variants as
\* on the periods in their original order.
C12_CommonIsOrderIndependent ==
  (calc.state = "applied" /\ calc.once # Null) =>
     /\ calc.shuffled # Null
     /\ Elements(calc.shuffled[1].common) = Elements(calc.once[1].common)
     /\ \A k \in 1..Len(calc.manifest) :
          calc.shuffled[1].periods[k] = calc.once[1].periods[calc.perm[k]]

C12_Witness ==
  /\ calc.state = "applied"
  /\ Len(calc.manifest) = 3
  /\ calc.perm = <<3, 1, 2>>
  /\ Len(calc.manifest[3].variants) < Len(calc.manifest[1].variants)
  /\ calc.once[1].common # <<>>
  /\ calc.once[1].periods # calc.manifest

\* C17: filterByCommonCodecs applied to the manifest it has just filtered
\* leaves every period's list as it is.
C17_CommonIsIdempotent ==
  (calc.state = "applied" /\ calc.once # Null) =>
     /\ calc.again # Null
     /\ \A k \in 1..Len(calc.manifest) :
          calc.again[1].periods[k].variants = calc.once[1].periods[k].variants

C17_Witness ==
  /\ calc.state = "applied"
  /\ Len(calc.manifest) >= 2
  /\ calc.once # Null
  /\ \E k \in 1..Len(calc.manifest) :
       /\ calc.once[1].periods[k].variants # calc.manifest[k].variants
       /\ calc.once[1].periods[k].variants # <<>>

\* No two elements of the array are equal under equals.
NoEqualPair(all) ==
  \A i, j \in 1..Len(all) : i # j => ~equals(all[i], all[j])

\* C14: a summary set never holds two elements that are equal under equals,
\* whatever calls of add, includeAll, onlyKeep and fromVariants built it, and
\* add of a summary equal to one already held leaves the set as it was.
C14_SetHoldsNoEqualPair ==
  calc.state = "set" =>
     /\ NoEqualPair(calc.this)
     /\ NoEqualPair(calc.other)
     /\ (calc.op = "add" /\
         \E k \in 1..Len(calc.before) : equals(calc.before[k], calc.arg[1])) =>
           calc.this = calc.before

C14_Witness ==
  /\ calc.state = "set"
  /\ calc.op = "add"
  /\ Len(calc.before) = 3
  /\ calc.this = calc.before
  /\ Len(calc.other) = 2

\* C15: after onlyKeep the set holds exactly the elements it held before that
\* the argument holds, after includeAll exactly the elements held before by
\* itself or by the argument; with itself as the argument either call leaves
\* the set as it was.
C15_OnlyKeepIntersectsIncludeAllUnites ==
  /\ (calc.state = "set" /\ calc.op = "onlyKeep") =>
       /\ Elements(calc.this) = Elements(calc.before) \cap Elements(calc.arg)
       /\ calc.arg = calc.before => calc.this = calc.before
  /\ (calc.state = "set" /\ calc.op = "includeAll") =>
       /\ Elements(calc.this) = Elements(calc.before) \cup Elements(calc.arg)
       /\ calc.arg = calc.before => calc.this = calc.before

C15_Witness ==
  /\ calc.state = "set"
  /\ calc.op = "onlyKeep"
  /\ Len(calc.before) = 3
  /\ Len(calc.this) = 2
  /\ Len(calc.arg) = 2

\* The run is suspended at the await of a call that has not settled.
AwaitingPending == pc = "await" /\ callState[idx] = "pending"

\* The run is suspended at the await of a call that has settled.
AwaitingSettled == pc = "await" /\ callState[idx] # "pending"

\* The rollingFilter promise has settled.
RunCompleted == pc \in {"done", "failed"}

\* Every call of the injected filter that the run awaits eventually settles.
CallsComplete == AwaitingPending ~> ~AwaitingPending

\* C16: if every call of the injected filter eventually settles, a started
\* rollingFilter run eventually completes; it resolves, with no failure, only
\* when the call on every period has resolved, it fails with the error of the
\* call it was awaiting, and once the awaited call has settled the run does not
\* stay suspended at that await.
C16_RunCompletesWhenCallsComplete ==
  /\ [](pc = "done" =>
          /\ failure = Null
          /\ \A k \in 1..Len(periods) : callState[k] = "resolved")
  /\ [](pc = "failed" =>
          /\ callState[idx] = "rejected"
          /\ failure = callErr[idx])
  /\ (AwaitingSettled ~> ~AwaitingSettled)
  /\ (CallsComplete => (pc = "await" ~> RunCompleted))

C16_Witness ==
  /\ pc = "failed"
  /\ idx = Len(periods)
  /\ Len(periods) = MaxPeriods
  /\ \A k \in 1..(idx - 1) : callState[k] = "resolved"

====
